---- MODULE Spec2Model ----
(***************************************************************************)
(* Model of src/examples/bullseye/bullseye-range.js: the archery range's   *)
(* simulation core (WeatherSystem, Target, Arrow, Bullseye_Range).         *)
(*                                                                         *)
(* Numbers are fixed-point integers:                                       *)
(*   lengths        centimetres        (1 scene unit = 100)                *)
(*   time           ticks of 1/60 s    (dtClamp = 1/30 s = 2)              *)
(*   velocities     cm per second, accelerations cm per second^2           *)
(*   angles         milliradians                                           *)
(*   sin, cos, unit vectors, draw strength, ring fractions: thousandths    *)
(* Every product is rescaled with \div, which rounds toward minus          *)
(* infinity.                                                               *)
(***************************************************************************)
EXTENDS Integers, Sequences, FiniteSets, TLC

VARIABLES
  score,           \* this.score
  shots_taken,     \* this.shots_taken
  streak,          \* this.streak
  aim_yaw,         \* this.aim_yaw (mrad)
  aim_pitch,       \* this.aim_pitch (mrad)
  is_drawing,      \* this.is_drawing
  draw_strength,   \* this.draw_strength (thousandths)
  arrows,          \* this.arrows: sequence of Arrow records
  weather,         \* this.weather: [current_index, particles]
  targets,         \* this.targets: sequence of Target records
  target_centers,  \* this.target_centers: sequence of <<x, y, z>>
  last,            \* history: the last handler run and what it saw before it ran
  steps,           \* history: handlers run since the initial state
  frac,            \* argument of the scoring-function harness
  points           \* result of the scoring-function harness

vars == <<score, shots_taken, streak, aim_yaw, aim_pitch, is_drawing,
          draw_strength, arrows, weather, targets, target_centers,
          last, steps, frac, points>>

(***************************************************************************)
(* Bounds of the exploration.                                              *)
(***************************************************************************)
\* handlers explored from each initial state
MaxSteps == 3

(***************************************************************************)
(* GAME_CONFIG                                                             *)
(***************************************************************************)
maxShots == 20
gravity == -1500
baseArrowSpeed == 6000
aimSensitivity == 40
maxDrawStrength == 1000
drawChargeRate == 1200
playerHeight == 200
arrowSpawnForward == 100
dtClamp == 2

TARGET_SCORING ==
  << [frac |-> 200, points |-> 10],
     [frac |-> 400, points |-> 8],
     [frac |-> 600, points |-> 6],
     [frac |-> 800, points |-> 4],
     [frac |-> 1000, points |-> 2] >>

\* particle: the empty set is the source's null, otherwise a one-element set.
\* life in ticks; speedX, speedY in cm/s; color and scale are only drawn.
WEATHER_PRESETS ==
  [ clear |-> [spawnPerFrame |-> 0, windStrength |-> 0, windAngle |-> 0,
               particle |-> {}],
    wind  |-> [spawnPerFrame |-> 2, windStrength |-> 600, windAngle |-> 2199,
               particle |-> {[life |-> <<180, 300>>, speedX |-> <<1500, 2000>>,
                              speedY |-> <<-200, -100>>]}],
    rain  |-> [spawnPerFrame |-> 10, windStrength |-> 200, windAngle |-> 942,
               particle |-> {[life |-> <<60, 90>>, speedX |-> <<-100, 100>>,
                              speedY |-> <<-4000, -3000>>]}],
    snow  |-> [spawnPerFrame |-> 5, windStrength |-> 100, windAngle |-> 2670,
               particle |-> {[life |-> <<300, 420>>, speedX |-> <<-100, 100>>,
                              speedY |-> <<-600, -400>>]}] ]

(***************************************************************************)
(* Arithmetic of the vector library and of Math.                           *)
(***************************************************************************)
Min(a, b) == IF a <= b THEN a ELSE b
Max(a, b) == IF a >= b THEN a ELSE b
Abs(a) == IF a < 0 THEN 0 - a ELSE a

\* Math.random(): u of 4 stands for u/4, so RandSet holds 0 and 0.75.
RandSet == {0, 3}
randRange(min, max, u) == min + (u * (max - min)) \div 4

\* x * dt with dt in ticks of 1/60 s
TimesDt(x, dt) == (x * dt) \div 60

plus(a, b) == <<a[1] + b[1], a[2] + b[2], a[3] + b[3]>>
minus(a, b) == <<a[1] - b[1], a[2] - b[2], a[3] - b[3]>>
times_dt(v, dt) == <<TimesDt(v[1], dt), TimesDt(v[2], dt), TimesDt(v[3], dt)>>
\* v.times(s) with s in thousandths
times(v, s) == <<(v[1] * s) \div 1000, (v[2] * s) \div 1000, (v[3] * s) \div 1000>>

\* Math.sqrt on integers, rounded up: the smallest r with r * r >= n, so that
\* Sqrt(n) <= c holds exactly when n <= c * c.  SqrtIter is the largest r
\* with r * r <= n.
RECURSIVE SqrtIter(_, _, _)
SqrtIter(n, lo, hi) ==
  IF lo >= hi THEN lo
  ELSE LET mid == (lo + hi + 1) \div 2
       IN IF mid * mid <= n THEN SqrtIter(n, mid, hi) ELSE SqrtIter(n, lo, mid - 1)
Sqrt(n) ==
  LET r == SqrtIter(n, 0, 46340)
  IN IF r * r = n THEN r ELSE r + 1

norm(v) == Sqrt(v[1] * v[1] + v[2] * v[2] + v[3] * v[3])
normalized(v) ==
  LET n == norm(v)
  IN <<(v[1] * 1000) \div n, (v[2] * 1000) \div n, (v[3] * 1000) \div n>>

\* Math.sin of an angle in mrad, in thousandths: the angle is reduced to
\* [0, pi/2] and the series x - x^3/6 + x^5/120 - x^7/5040 is summed.
SinSeries(x) ==
  LET x2 == (x * x) \div 1000
      x3 == (x2 * x) \div 1000
      x5 == (x3 * x2) \div 1000
      x7 == (x5 * x2) \div 1000
  IN x - x3 \div 6 + x5 \div 120 - x7 \div 5040
SinHalf(t) == IF t > 1571 THEN SinSeries(3142 - t) ELSE SinSeries(t)
SinTurn(t) == IF t > 3142 THEN 0 - SinHalf(t - 3142) ELSE SinHalf(t)
Sin(a) == IF a < 0 THEN 0 - SinTurn((0 - a) % 6283) ELSE SinTurn(a % 6283)
Cos(a) == Sin(a + 1571)

(***************************************************************************)
(* WeatherSystem                                                           *)
(***************************************************************************)
max_particles == 400
weather_types == <<"clear", "wind", "rain", "snow">>

WeatherSystem == [particles |-> <<>>, current_index |-> 0]

type(w) == weather_types[w.current_index + 1]
preset(w) == WEATHER_PRESETS[type(w)]

\* the wrap taken one preset early
cycle_type_short(w) ==
  LET idx == (w.current_index + 1) % (Len(weather_types) - 1)
      w1 == [w EXCEPT !.current_index = idx]
  IN IF type(w1) = "clear" THEN [w1 EXCEPT !.particles = <<>>] ELSE w1

\* the particles kept when clear comes round
cycle_type_keeps_particles(w) ==
  [w EXCEPT !.current_index = (w.current_index + 1) % Len(weather_types)]

cycle_type(w) ==
  LET idx == (w.current_index + 1) % Len(weather_types)
      w1 == [w EXCEPT !.current_index = idx]
  IN IF type(w1) = "clear" THEN [w1 EXCEPT !.particles = <<>>] ELSE w1

\* Every Math.random() of one call returns u.
new_particle(p, u) ==
  [pos |-> <<randRange(-3000, 3000, u), randRange(1500, 2000, u),
             randRange(-8000, -2000, u)>>,
   vel |-> <<randRange(p.speedX[1], p.speedX[2], u),
             randRange(p.speedY[1], p.speedY[2], u), 0>>,
   life |-> randRange(p.life[1], p.life[2], u),
   age |-> 0]

\* spawn_particle without the test of the cap
spawn_particle_uncapped(w, u) ==
  IF preset(w).particle = {} THEN w
  ELSE [w EXCEPT !.particles =
          Append(@, new_particle(CHOOSE q \in preset(w).particle : TRUE, u))]

spawn_particle(w, u) ==
  IF preset(w).particle = {} \/ Len(w.particles) >= max_particles THEN w
  ELSE [w EXCEPT !.particles =
          Append(@, new_particle(CHOOSE q \in preset(w).particle : TRUE, u))]

RECURSIVE spawn_loop(_, _, _)
spawn_loop(w, count, u) ==
  IF count = 0 THEN w ELSE spawn_loop(spawn_particle(w, u), count - 1, u)

particle_step(p, dt) ==
  [p EXCEPT !.age = p.age + dt, !.pos = plus(p.pos, times_dt(p.vel, dt))]
particle_remains(p) == ~(p.age > p.life) /\ ~(p.pos[2] < -500)

\* an update that moves on to the next weather type
weather_update_cycles(w, dt, u) == cycle_type(w)

weather_update(w, dt, u) ==
  LET w1 == spawn_loop(w, preset(w).spawnPerFrame, u)
      moved == [i \in 1..Len(w1.particles) |-> particle_step(w1.particles[i], dt)]
  IN [w1 EXCEPT !.particles = SelectSeq(moved, particle_remains)]

(***************************************************************************)
(* Target                                                                  *)
(***************************************************************************)
\* freq in mrad per second, time in ticks
Target(center, radius, depth, amp_x, amp_y, freq_x, freq_y) ==
  [base_center |-> center, radius |-> radius, depth |-> depth,
   amp_x |-> amp_x, amp_y |-> amp_y, freq_x |-> freq_x, freq_y |-> freq_y,
   time |-> 0]

target_update(t, dt) == [t EXCEPT !.time = t.time + dt]

get_center(t) ==
  << t.base_center[1] + (t.amp_x * Sin(TimesDt(t.freq_x, t.time))) \div 1000,
     t.base_center[2] + (t.amp_y * Sin(TimesDt(t.freq_y, t.time))) \div 1000,
     t.base_center[3] >>

(***************************************************************************)
(* Arrow                                                                   *)
(***************************************************************************)
Arrow(position, velocity) ==
  [pos |-> position, prev_pos |-> position, vel |-> velocity,
   alive |-> TRUE, stuck |-> FALSE]

\* the step without the ground test
integrate_no_ground(a, dt, g, wind_accel) ==
  LET accel == <<wind_accel[1], g + wind_accel[2], wind_accel[3]>>
      vel == plus(a.vel, times_dt(accel, dt))
      pos == plus(a.pos, times_dt(vel, dt))
  IN [a EXCEPT !.prev_pos = a.pos, !.vel = vel, !.pos = pos]

\* semi-implicit Euler step and the ground test
integrate(a, dt, g, wind_accel) ==
  LET accel == <<wind_accel[1], g + wind_accel[2], wind_accel[3]>>
      vel == plus(a.vel, times_dt(accel, dt))
      pos == plus(a.pos, times_dt(vel, dt))
  IN [a EXCEPT !.prev_pos = a.pos, !.vel = vel, !.pos = pos,
               !.alive = IF pos[2] < -200 THEN FALSE ELSE a.alive]

\* update that goes on integrating a stuck arrow
arrow_update_ignores_stuck(a, dt, g, wind_accel) ==
  IF ~a.alive THEN a ELSE integrate(a, dt, g, wind_accel)

\* update that goes on integrating an arrow that is not alive
arrow_update_ignores_alive(a, dt, g, wind_accel) ==
  IF a.stuck THEN a ELSE integrate(a, dt, g, wind_accel)

\* an update that leaves the arrow where it is
arrow_update_holds(a, dt, g, wind_accel) == [a EXCEPT !.prev_pos = a.pos]

arrow_update(a, dt, g, wind_accel) ==
  IF ~a.alive \/ a.stuck THEN a ELSE integrate(a, dt, g, wind_accel)

(***************************************************************************)
(* Bullseye_Range: the session is handled as a record g of its fields.     *)
(***************************************************************************)
max_shots == maxShots
aim_sensitivity == aimSensitivity
max_draw_strength == maxDrawStrength

\* reset_game that leaves the streak as it was
reset_game_keeps_streak(g) ==
  [score |-> 0, shots_taken |-> 0, streak |-> g.streak,
   aim_yaw |-> 0, aim_pitch |-> 0,
   is_drawing |-> FALSE, draw_strength |-> 0,
   arrows |-> <<>>,
   weather |-> WeatherSystem,
   target_centers |-> <<>>,
   targets |-> << Target(<<-500, 400, -4000>>, 250, 20, 400, 150, 1200, 2400),
                  Target(<<600, 600, -6000>>, 300, 20, 800, 300, 800, 400) >>]

reset_game(g) ==
  [score |-> 0, shots_taken |-> 0, streak |-> 0,
   aim_yaw |-> 0, aim_pitch |-> 0,
   is_drawing |-> FALSE, draw_strength |-> 0,
   arrows |-> <<>>,
   weather |-> WeatherSystem,
   target_centers |-> <<>>,
   targets |-> << Target(<<-500, 400, -4000>>, 250, 20, 400, 150, 1200, 2400),
                  Target(<<600, 600, -6000>>, 300, 20, 800, 300, 800, 400) >>]

get_weather_wind_vector(g) ==
  LET s == preset(g.weather).windStrength
      a == preset(g.weather).windAngle
  IN <<(s * Cos(a)) \div 1000, 0, (s * Sin(a)) \div 1000>>

current_aim_direction(g) ==
  LET cy == Cos(g.aim_yaw)
      sy == Sin(g.aim_yaw)
      cp == Cos(g.aim_pitch)
      sp == Sin(g.aim_pitch)
  IN normalized(<<(sy * cp) \div 1000, sp, ((0 - cy) * cp) \div 1000>>)

get_player_origin == <<0, playerHeight, 0>>

\* the speed of a full draw whatever the draw strength
compute_arrow_speed_full(g) == baseArrowSpeed

compute_arrow_speed(g) ==
  (baseArrowSpeed * (200 + (800 * g.draw_strength) \div 1000)) \div 1000

\* the band test with an exclusive threshold
RECURSIVE score_scan_exclusive(_, _)
score_scan_exclusive(f, i) ==
  IF i > Len(TARGET_SCORING) THEN 0
  ELSE IF f < TARGET_SCORING[i].frac THEN TARGET_SCORING[i].points
  ELSE score_scan_exclusive(f, i + 1)

RECURSIVE score_scan(_, _)
score_scan(f, i) ==
  IF i > Len(TARGET_SCORING) THEN 0
  ELSE IF f <= TARGET_SCORING[i].frac THEN TARGET_SCORING[i].points
  ELSE score_scan(f, i + 1)
score_for_radius_fraction(f) == score_scan(f, 1)

\* the arrow is pushed and the shot counted
launch(g) ==
  LET dir == current_aim_direction(g)
      start == plus(get_player_origin, times(dir, arrowSpawnForward))
      speed == compute_arrow_speed(g)
      wind == get_weather_wind_vector(g)
      velocity == plus(times(dir, speed), wind)
  IN [g EXCEPT !.arrows = Append(@, Arrow(start, velocity)),
               !.shots_taken = @ + 1]

\* spawn_arrow without the test of the shot budget
spawn_arrow_unbudgeted(g) == launch(g)

spawn_arrow(g) == IF g.shots_taken >= max_shots THEN g ELSE launch(g)

\* update_aim with the limit left out
update_aim_unclamped(g, is_hold, dt) ==
  IF ~is_hold THEN g
  ELSE [g EXCEPT !.draw_strength = g.draw_strength + TimesDt(drawChargeRate, dt)]

update_aim(g, is_hold, dt) ==
  IF ~is_hold THEN g
  ELSE [g EXCEPT !.draw_strength =
          Min(max_draw_strength, g.draw_strength + TimesDt(drawChargeRate, dt))]

\* for (const t of this.targets) t.update(dt)
RECURSIVE targets_updated(_, _, _)
targets_updated(ts, dt, i) ==
  IF i > Len(ts) THEN <<>>
  ELSE <<target_update(ts[i], dt)>> \o targets_updated(ts, dt, i + 1)

\* this.targets.map(t => t.get_center())
RECURSIVE centers_of(_, _)
centers_of(ts, i) ==
  IF i > Len(ts) THEN <<>> ELSE <<get_center(ts[i])>> \o centers_of(ts, i + 1)

update_targets(g, dt) ==
  LET ts == targets_updated(g.targets, dt, 1)
  IN [g EXCEPT !.targets = ts, !.target_centers = centers_of(ts, 1)]

arrow_is_alive(a) == a.alive

\* update_arrows with dead arrows left in the collection
update_arrows_unpruned(g, dt) ==
  LET wind_vec == get_weather_wind_vector(g)
  IN [g EXCEPT !.arrows = [i \in 1..Len(g.arrows) |->
                             arrow_update(g.arrows[i], dt, gravity, wind_vec)]]

update_arrows(g, dt) ==
  LET wind_vec == get_weather_wind_vector(g)
      moved == [i \in 1..Len(g.arrows) |->
                  arrow_update(g.arrows[i], dt, gravity, wind_vec)]
  IN [g EXCEPT !.arrows = SelectSeq(moved, arrow_is_alive)]

\* n / d rounded toward minus infinity, for either sign of d
Quot(n, d) == IF d < 0 THEN (0 - n) \div (0 - d) ELSE n \div d

\* the point of the segment prev_pos -> pos on the plane z = tz
hit_point(a, tz) ==
  LET z0 == a.prev_pos[3]
      dz == a.pos[3] - z0
      segment == minus(a.pos, a.prev_pos)
  IN <<a.prev_pos[1] + Quot(segment[1] * (tz - z0), dz),
       a.prev_pos[2] + Quot(segment[2] * (tz - z0), dz),
       a.prev_pos[3] + Quot(segment[3] * (tz - z0), dz)>>

\* tHit = (tz - z0) / dz lies in [0, 1]
t_hit_in_segment(z0, dz, tz) ==
  LET num == tz - z0
  IN ~(num * dz < 0) /\ ~(IF dz > 0 THEN num > dz ELSE num < dz)

crosses_plane(a, tz) ==
  LET z0 == a.prev_pos[3]
      z1 == a.pos[3]
      dz == z1 - z0
  IN /\ ~(Abs(dz) = 0)
     /\ (z0 - tz) * (z1 - tz) <= 0
     /\ t_hit_in_segment(z0, dz, tz)

radial_distance(hit_pos, center) ==
  LET dx == hit_pos[1] - center[1]
      dy == hit_pos[2] - center[2]
  IN Sqrt(dx * dx + dy * dy)

\* the radial test left out: every crossing of the plane is a hit
within_radius_always(r, radius) == TRUE

within_radius(r, radius) == r <= radius

\* arrow a hits target i: its segment crosses the plane within the radius
target_hit(g, a, i) ==
  LET center == g.target_centers[i]
  IN /\ crosses_plane(a, center[3])
     /\ within_radius(radial_distance(hit_point(a, center[3]), center),
                      g.targets[i].radius)

\* the last target, in array order, that arrow a hits; 0 when there is none
RECURSIVE last_hit(_, _, _)
last_hit(g, a, i) ==
  IF i > Len(g.targets) THEN 0
  ELSE LET later == last_hit(g, a, i + 1)
       IN IF later # 0 THEN later
          ELSE IF target_hit(g, a, i) THEN i
          ELSE 0

\* the first target, in array order, that arrow a hits; 0 when there is none
RECURSIVE first_hit(_, _, _)
first_hit(g, a, i) ==
  IF i > Len(g.targets) THEN 0
  ELSE IF target_hit(g, a, i) THEN i
  ELSE first_hit(g, a, i + 1)

\* the points taken off the score
add_points_negated(sc, pts) == sc - pts

add_points(sc, pts) == sc + pts

\* the streak with 8 points not counted as a high score
next_streak_strict(st, pts) == IF pts > 8 THEN st + 1 ELSE 0
next_streak(st, pts) == IF pts >= 8 THEN st + 1 ELSE 0

\* the arrow stopped on the face but not marked stuck
stick_unmarked(a, hit_pos) ==
  [a EXCEPT !.vel = <<0, 0, 0>>, !.pos = plus(hit_pos, <<0, 0, 20>>)]

stick(a, hit_pos) ==
  [a EXCEPT !.stuck = TRUE, !.vel = <<0, 0, 0>>, !.pos = plus(hit_pos, <<0, 0, 20>>)]

score_hit(g, k, i) ==
  LET a == g.arrows[k]
      center == g.target_centers[i]
      hit_pos == hit_point(a, center[3])
      r == radial_distance(hit_pos, center)
      ring_frac == (r * 1000) \div g.targets[i].radius
      pts == score_for_radius_fraction(ring_frac)
  IN [g EXCEPT !.score = add_points(@, pts),
               !.streak = next_streak(@, pts),
               !.arrows[k] = stick(a, hit_pos)]

resolve_arrow(g, k) ==
  LET a == g.arrows[k]
  IN IF ~a.alive \/ a.stuck THEN g
     ELSE LET i == first_hit(g, a, 1)
          IN IF i = 0 THEN g ELSE score_hit(g, k, i)

RECURSIVE resolve_from(_, _)
resolve_from(g, k) ==
  IF k > Len(g.arrows) THEN g ELSE resolve_from(resolve_arrow(g, k), k + 1)

resolve_arrow_target_collisions(g) == resolve_from(g, 1)

update_simulation(g, dt, u) ==
  LET g1 == [g EXCEPT !.weather = weather_update(g.weather, dt, u)]
      g2 == update_targets(g1, dt)
      g3 == update_arrows(g2, dt)
  IN resolve_arrow_target_collisions(g3)

\* one animated frame: raw is animation_delta_time in ticks
render_animation(g, raw, u) ==
  LET dt == Min(raw, dtClamp)
      g1 == IF g.is_drawing THEN update_aim(g, TRUE, dt) ELSE g
  IN update_simulation(g1, dt, u)

\* a frame with uniforms.animate false: nothing is updated before the drawing
render_paused(g) == g

(***************************************************************************)
(* render_controls: the callbacks of the buttons                           *)
(***************************************************************************)
aim_left(g) == [g EXCEPT !.aim_yaw = @ - aim_sensitivity]
aim_right(g) == [g EXCEPT !.aim_yaw = @ + aim_sensitivity]
\* Aim Up with the limit left out
aim_up_unclamped(g) == [g EXCEPT !.aim_pitch = @ + aim_sensitivity]
aim_up(g) == [g EXCEPT !.aim_pitch = Min(@ + aim_sensitivity, 400)]
aim_down(g) == [g EXCEPT !.aim_pitch = Max(@ - aim_sensitivity, -400)]

\* the press with the test of is_drawing left out
draw_press_restarts(g) ==
  IF g.shots_taken < max_shots
  THEN [g EXCEPT !.is_drawing = TRUE, !.draw_strength = 0]
  ELSE g

draw_press(g) ==
  IF ~g.is_drawing /\ g.shots_taken < max_shots
  THEN [g EXCEPT !.is_drawing = TRUE, !.draw_strength = 0]
  ELSE g

draw_release(g) ==
  IF g.is_drawing THEN spawn_arrow([g EXCEPT !.is_drawing = FALSE]) ELSE g

cycle_weather(g) == [g EXCEPT !.weather = cycle_type(@)]

(***************************************************************************)
(* Input events and frames.  An event is [ev, dt, u]: dt is the frame's    *)
(* animation_delta_time in ticks and u the value of Math.random() during   *)
(* the frame; both are 0 for the button events.                            *)
(***************************************************************************)
Ev(name) == [ev |-> name, dt |-> 0, u |-> 0]
FrameEv(raw, u) == [ev |-> "frame", dt |-> raw, u |-> u]

\* animation_delta_time of a frame: 0, 1/60 s, 1/30 s, and 1/20 s (clamped)
DtRawSet == {0, 1, 2, 3}

Apply(g, e) ==
  CASE e.ev = "frame" -> render_animation(g, e.dt, e.u)
    [] e.ev = "aim_left" -> aim_left(g)
    [] e.ev = "aim_right" -> aim_right(g)
    [] e.ev = "aim_up" -> aim_up(g)
    [] e.ev = "aim_down" -> aim_down(g)
    [] e.ev = "draw_press" -> draw_press(g)
    [] e.ev = "draw_release" -> draw_release(g)
    [] e.ev = "cycle_weather" -> cycle_weather(g)
    [] e.ev = "reset_game" -> reset_game(g)
    [] e.ev = "fire" -> spawn_arrow(g)
    [] e.ev = "paused_frame" -> render_paused(g)

\* the session after the events of script sc, starting from init()
\* the session after the events i..j of script sc, starting from g; the script
\* is run half by half to keep the evaluation shallow
RECURSIVE RunSpan(_, _, _, _)
RunSpan(g, sc, i, j) ==
  IF i > j THEN g
  ELSE IF i = j THEN Apply(g, sc[i])
  ELSE LET m == (i + j) \div 2
           h == RunSpan(g, sc, i, m)
       IN \* the test has h evaluated before the later events are applied to it
          IF h.shots_taken >= 0 THEN RunSpan(h, sc, m + 1, j) ELSE h
RunFrom(g, sc, i) == RunSpan(g, sc, i, Len(sc))
\* init(): reset_game() on the new component, whose fields are not set yet
Unset ==
  [score |-> 0, shots_taken |-> 0, streak |-> 0, aim_yaw |-> 0, aim_pitch |-> 0,
   is_drawing |-> FALSE, draw_strength |-> 0, arrows |-> <<>>,
   weather |-> WeatherSystem, target_centers |-> <<>>, targets |-> <<>>]
Constructed == reset_game(Unset)
Run(sc) == RunFrom(Constructed, sc, 1)

Rep(e, n) == [i \in 1..n |-> e]

\* Sessions the exploration starts from, each given by the events that lead
\* to it from construction.
\* yaw steps left, pitch steps up, then a draw held for c frames of raw dt d
Shot(y, p, c, d) ==
  Rep(Ev("aim_left"), y) \o Rep(Ev("aim_up"), p) \o <<Ev("draw_press")>>
    \o Rep(FrameEv(d, 0), c) \o <<Ev("draw_release")>>

\* just constructed
Fresh == <<>>
\* a full-draw arrow one 1/30 s frame short of the face of target 1
AboutToHit == Shot(1, 3, 25, 2) \o Rep(FrameEv(2, 0), 19)
\* a full-draw arrow one 1/30 s frame short of target 1's plane, wide of it
AboutToMiss == Shot(4, 3, 25, 2) \o Rep(FrameEv(2, 0), 19)
\* an undrawn arrow one 1/30 s frame short of the ground
AboutToLand == Shot(0, 0, 0, 2) \o Rep(FrameEv(2, 0), 21)
\* nineteen of the twenty shots taken
LastShot == Shot(0, 0, 0, 2) \o Shot(0, 0, 0, 2)
    \o Shot(0, 0, 0, 2) \o Shot(0, 0, 0, 2) \o Shot(0, 0, 0, 2) \o Shot(0, 0, 0, 2)
    \o Shot(0, 0, 0, 2) \o Shot(0, 0, 0, 2) \o Shot(0, 0, 0, 2) \o Shot(0, 0, 0, 2)
    \o Shot(0, 0, 0, 2) \o Shot(0, 0, 0, 2) \o Shot(0, 0, 0, 2) \o Shot(0, 0, 0, 2)
    \o Shot(0, 0, 0, 2) \o Shot(0, 0, 0, 2) \o Shot(0, 0, 0, 2) \o Shot(0, 0, 0, 2)
    \o Shot(0, 0, 0, 2)
\* rain for 39 frames of 1/60 s: 390 particles
HeavyRain == <<Ev("cycle_weather"), Ev("cycle_weather")>> \o Rep(FrameEv(1, 3), 39)
\* rain, an arrow in flight and a draw under way
Storm == <<Ev("cycle_weather"), Ev("cycle_weather"), Ev("aim_up"), Ev("draw_press"),
           FrameEv(1, 3), FrameEv(2, 3), Ev("draw_release"), Ev("draw_press"),
           FrameEv(2, 0)>>

\* the aim nine steps below level: the tenth reaches the lower pitch limit
LowAim == Rep(Ev("aim_down"), 9)
\* the aim nine steps above level and a draw held for 24 frames of 1/30 s:
\* one more frame fills the draw
HighDraw == Rep(Ev("aim_up"), 9) \o <<Ev("draw_press")>> \o Rep(FrameEv(2, 0), 24)

\* an arrow on target 1 for 8 points, and a second full-draw arrow, shot three
\* aim steps further left, one 1/30 s frame short of the face for 4 points
AboutToBreakStreak ==
  AboutToHit \o <<FrameEv(2, 0)>> \o Rep(Ev("aim_left"), 3) \o <<Ev("draw_press")>>
    \o Rep(FrameEv(2, 0), 25) \o <<Ev("draw_release")>> \o Rep(FrameEv(2, 0), 19)

Scenarios ==
  { Fresh, AboutToHit, AboutToMiss, AboutToLand, LastShot, HeavyRain, Storm,
    LowAim, HighDraw, AboutToBreakStreak }

(***************************************************************************)
(* The state machine                                                       *)
(***************************************************************************)
G ==
  [score |-> score, shots_taken |-> shots_taken, streak |-> streak,
   aim_yaw |-> aim_yaw, aim_pitch |-> aim_pitch,
   is_drawing |-> is_drawing, draw_strength |-> draw_strength,
   arrows |-> arrows, weather |-> weather,
   target_centers |-> target_centers, targets |-> targets]

\* what a handler saw before it ran
arrow_is_dead(a) == ~a.alive
Seen(e) ==
  [ev |-> e.ev, dt |-> e.dt, score |-> score, shots |-> shots_taken,
   streak |-> streak, drawing |-> is_drawing,
   parts |-> Len(weather.particles), arrows |-> Len(arrows),
   dead |-> Len(SelectSeq(arrows, arrow_is_dead)),
   pitch |-> aim_pitch, charge |-> draw_strength,
   index |-> weather.current_index]

Session(g) ==
  /\ score = g.score
  /\ shots_taken = g.shots_taken
  /\ streak = g.streak
  /\ aim_yaw = g.aim_yaw
  /\ aim_pitch = g.aim_pitch
  /\ is_drawing = g.is_drawing
  /\ draw_strength = g.draw_strength
  /\ arrows = g.arrows
  /\ weather = g.weather
  /\ targets = g.targets
  /\ target_centers = g.target_centers

Init ==
  /\ \E sc \in Scenarios : \E g \in {Run(sc)} : Session(g)
  /\ last = [ev |-> "init", dt |-> 0, score |-> 0, shots |-> 0, streak |-> 0,
             drawing |-> FALSE, parts |-> 0, arrows |-> 0, dead |-> 0,
             pitch |-> 0, charge |-> 0, index |-> 0]
  /\ steps = 0
  /\ frac = 0
  /\ points = 0

Handle(e) ==
  /\ steps < MaxSteps
  /\ \E g \in {Apply(G, e)} :
       /\ score' = g.score
       /\ shots_taken' = g.shots_taken
       /\ streak' = g.streak
       /\ aim_yaw' = g.aim_yaw
       /\ aim_pitch' = g.aim_pitch
       /\ is_drawing' = g.is_drawing
       /\ draw_strength' = g.draw_strength
       /\ arrows' = g.arrows
       /\ weather' = g.weather
       /\ targets' = g.targets
       /\ target_centers' = g.target_centers
  /\ last' = Seen(e)
  /\ steps' = steps + 1
  /\ UNCHANGED <<frac, points>>

AimLeft == Handle(Ev("aim_left"))
AimRight == Handle(Ev("aim_right"))
AimUp == Handle(Ev("aim_up"))
AimDown == Handle(Ev("aim_down"))
DrawPress == Handle(Ev("draw_press"))
DrawRelease == Handle(Ev("draw_release"))
CycleWeather == Handle(Ev("cycle_weather"))
ResetGame == Handle(Ev("reset_game"))
Frame == \E raw \in DtRawSet, u \in RandSet : Handle(FrameEv(raw, u))
\* fire(): spawn_arrow called directly
Fire == Handle(Ev("fire"))

Next ==
  \/ AimLeft
  \/ AimRight
  \/ AimUp
  \/ AimDown
  \/ DrawPress
  \/ DrawRelease
  \/ CycleWeather
  \/ ResetGame
  \/ Frame

Spec == Init /\ [][Next]_vars

(***************************************************************************)
(* The session with fire() called directly as well                         *)
(***************************************************************************)
NextFire == Next \/ Fire
SpecFire == Init /\ [][NextFire]_vars

(***************************************************************************)
(* The session with the animation paused at times: frames that draw        *)
(* without updating                                                        *)
(***************************************************************************)
PausedFrame == Handle(Ev("paused_frame"))
NextRender == Next \/ PausedFrame
SpecRender == Init /\ [][NextRender]_vars

(***************************************************************************)
(* The Arrow class on its own: update() called on every arrow of the       *)
(* collection, under any preset's wind, with nothing removed.              *)
(***************************************************************************)
wind_of_index(k) ==
  get_weather_wind_vector([weather |-> [particles |-> <<>>, current_index |-> k]])

ArrowUpdate ==
  \E raw \in DtRawSet, k \in 0..3 :
    /\ steps < MaxSteps
    /\ arrows' = [i \in 1..Len(arrows) |->
                    arrow_update(arrows[i], Min(raw, dtClamp), gravity, wind_of_index(k))]
    /\ last' = Seen([ev |-> "arrow_update", dt |-> Min(raw, dtClamp)])
    /\ steps' = steps + 1
    /\ UNCHANGED <<score, shots_taken, streak, aim_yaw, aim_pitch, is_drawing,
                   draw_strength, weather, targets, target_centers, frac, points>>

SpecArrow == Init /\ [][ArrowUpdate]_vars

(***************************************************************************)
(* score_for_radius_fraction on its own, for every fraction in thousandths *)
(***************************************************************************)
FracSet == 0..1000

InitScore ==
  /\ Session(Constructed)
  /\ last = [ev |-> "init", dt |-> 0, score |-> 0, shots |-> 0, streak |-> 0,
             drawing |-> FALSE, parts |-> 0, arrows |-> 0, dead |-> 0,
             pitch |-> 0, charge |-> 0, index |-> 0]
  /\ steps = 0
  /\ frac \in FracSet
  /\ points = 0

ScoreFraction ==
  /\ steps = 0
  /\ points' = score_for_radius_fraction(frac)
  /\ steps' = 1
  /\ last' = Seen([ev |-> "score_for_radius_fraction", dt |-> 0])
  /\ UNCHANGED <<score, shots_taken, streak, aim_yaw, aim_pitch, is_drawing,
                 draw_strength, arrows, weather, targets, target_centers, frac>>

SpecScore == InitScore /\ [][ScoreFraction]_vars

(***************************************************************************)
(* Scenario A: an undrawn arrow shot in clear weather at a still target of *)
(* radius 2.5 whose centre is on the aim axis at z = -40, then frames of   *)
(* 1/60 s.  The aim is any number of steps left or right and up or down.   *)
(***************************************************************************)
\* frames of scenario A
MaxTicks == 80

\* a still target where the aim axis of g meets the plane z = -40
axis_target(g) ==
  LET dir == current_aim_direction(g)
      o == get_player_origin
  IN Target(<<o[1] + (dir[1] * 4000) \div (0 - dir[3]),
              o[2] + (dir[2] * 4000) \div (0 - dir[3]),
              -4000>>, 250, 20, 0, 0, 0, 0)

\* the aim events for y steps of yaw and p steps of pitch
aim_events(y, p) ==
  Rep(Ev(IF y < 0 THEN "aim_left" ELSE "aim_right"), Abs(y))
    \o Rep(Ev(IF p < 0 THEN "aim_down" ELSE "aim_up"), Abs(p))

scenario_a(y, p) ==
  LET aimed == Run(aim_events(y, p))
      staged == [aimed EXCEPT !.targets = <<axis_target(aimed)>>]
  IN draw_release(draw_press(staged))

SessionNext(g) ==
  /\ score' = g.score
  /\ shots_taken' = g.shots_taken
  /\ streak' = g.streak
  /\ aim_yaw' = g.aim_yaw
  /\ aim_pitch' = g.aim_pitch
  /\ is_drawing' = g.is_drawing
  /\ draw_strength' = g.draw_strength
  /\ arrows' = g.arrows
  /\ weather' = g.weather
  /\ targets' = g.targets
  /\ target_centers' = g.target_centers

InitScenarioA ==
  /\ \E y \in -3..3, p \in -10..10 : \E g \in {scenario_a(y, p)} : Session(g)
  /\ last = [ev |-> "init", dt |-> 0, score |-> 0, shots |-> 0, streak |-> 0,
             drawing |-> FALSE, parts |-> 0, arrows |-> 0, dead |-> 0,
             pitch |-> 0, charge |-> 0, index |-> 0]
  /\ steps = 0
  /\ frac = 0
  /\ points = 0

\* one frame of 1/60 s
Tick ==
  /\ steps < MaxTicks
  /\ \E g \in {render_animation(G, 1, 0)} : SessionNext(g)
  /\ last' = Seen(FrameEv(1, 0))
  /\ steps' = steps + 1
  /\ UNCHANGED <<frac, points>>

SpecScenarioA == InitScenarioA /\ [][Tick]_vars

(***************************************************************************)
(* resolve_arrow_target_collisions on its own: the two targets of the game *)
(* at time 0 and one arrow in flight whose last segment is given, long     *)
(* enough to cross no plane, one plane or both.                            *)
(***************************************************************************)
segment_arrow(from, to) ==
  [pos |-> to, prev_pos |-> from, vel |-> <<0, 0, -6000>>,
   alive |-> TRUE, stuck |-> FALSE]

InitCollide ==
  /\ \E x0 \in {-550, 600, 2000}, y0 \in {400, 600}, z0 \in {-3900, -6100},
        x1 \in {-500, 650, 850}, y1 \in {400, 600}, z1 \in {-3950, -4100, -6100} :
       \E g \in {[update_targets(Constructed, 0) EXCEPT
                    !.arrows = <<segment_arrow(<<x0, y0, z0>>, <<x1, y1, z1>>)>>]} :
         Session(g)
  /\ last = [ev |-> "init", dt |-> 0, score |-> 0, shots |-> 0, streak |-> 0,
             drawing |-> FALSE, parts |-> 0, arrows |-> 0, dead |-> 0,
             pitch |-> 0, charge |-> 0, index |-> 0]
  /\ steps = 0
  /\ frac = 0
  /\ points = 0

Resolve ==
  /\ steps = 0
  /\ \E g \in {resolve_arrow_target_collisions(G)} : SessionNext(g)
  /\ last' = Seen([ev |-> "resolve", dt |-> 0])
  /\ steps' = 1
  /\ UNCHANGED <<frac, points>>

SpecCollide == InitCollide /\ [][Resolve]_vars

(***************************************************************************)
(* The frame on its own, from the sessions of the game and from a session  *)
(* with one arrow given by hand: in front of target 1's face and falling   *)
(* so steeply that a frame of 1/30 s takes it through the face and below   *)
(* y = -2.  No shot of the game falls that fast.                           *)
(***************************************************************************)
PlungeArrow ==
  [pos |-> <<-484, 300, -3990>>, prev_pos |-> <<-484, 305, -3989>>,
   vel |-> <<0, -16000, -3000>>, alive |-> TRUE, stuck |-> FALSE]

Plunge == [update_targets(Constructed, 0) EXCEPT !.arrows = <<PlungeArrow>>]

InitPlunge ==
  /\ \E g \in {Run(sc) : sc \in Scenarios} \cup {Plunge} : Session(g)
  /\ last = [ev |-> "init", dt |-> 0, score |-> 0, shots |-> 0, streak |-> 0,
             drawing |-> FALSE, parts |-> 0, arrows |-> 0, dead |-> 0,
             pitch |-> 0, charge |-> 0, index |-> 0]
  /\ steps = 0
  /\ frac = 0
  /\ points = 0

SpecPlunge == InitPlunge /\ [][Frame]_vars

(***************************************************************************)
(* Frames that keep coming, each of 1/60 s or 1/30 s, with no input event: *)
(* from the sessions of the game and from one with a full-draw arrow just  *)
(* shot at the highest pitch, the longest flight there is.  The first      *)
(* MaxSteps frames take either dt, the later ones the dt of the frame      *)
(* before.  weak fairness: the animation loop calls render_animation again *)
(* after every frame.                                                      *)
(***************************************************************************)
\* frames of a flight
MaxFlight == 250

\* a full-draw arrow just shot at pitch 0.4
HighShot == HighDraw \o <<Ev("aim_up"), FrameEv(2, 0), Ev("draw_release")>>

InitFlight ==
  /\ \E g \in {Run(sc) : sc \in Scenarios \cup {HighShot}} : Session(g)
  /\ last = [ev |-> "init", dt |-> 0, score |-> 0, shots |-> 0, streak |-> 0,
             drawing |-> FALSE, parts |-> 0, arrows |-> 0, dead |-> 0,
             pitch |-> 0, charge |-> 0, index |-> 0]
  /\ steps = 0
  /\ frac = 0
  /\ points = 0

FlightFrame ==
  /\ steps < MaxFlight
  /\ \E raw \in (IF steps < MaxSteps THEN {1, 2} ELSE {last.dt}) :
       /\ \E g \in {render_animation(G, raw, 0)} : SessionNext(g)
       /\ last' = Seen(FrameEv(raw, 0))
  /\ steps' = steps + 1
  /\ UNCHANGED <<frac, points>>

\* a frame is counted: what every FlightFrame step does, and possible exactly
\* when FlightFrame is
FrameCounted == steps < MaxFlight /\ steps' = steps + 1

SpecFlight == InitFlight /\ [][FlightFrame]_vars /\ WF_steps(FrameCounted)

(***************************************************************************)
(* Claims                                                                  *)
(***************************************************************************)

\* C1: shots_taken never exceeds max_shots, and fire() called when
\* shots_taken equals max_shots leaves shots_taken and the arrows unchanged.
C1_ShotBudget ==
  /\ [](shots_taken <= max_shots)
  /\ [][last'.ev = "fire" /\ shots_taken = max_shots
          => shots_taken' = shots_taken /\ arrows' = arrows]_vars

\* fire() was called with the budget spent
C1_Witness ==
  /\ last.ev = "fire"
  /\ last.shots = max_shots
  /\ shots_taken = max_shots
  /\ Len(arrows) = last.arrows

\* <<pos, vel>> of the stuck arrows of a collection, in its order
RECURSIVE StuckView(_, _)
StuckView(as, i) ==
  IF i > Len(as) THEN <<>>
  ELSE IF as[i].stuck THEN <<<<as[i].pos, as[i].vel>>>> \o StuckView(as, i + 1)
  ELSE StuckView(as, i + 1)

\* s is t with some entries left out
RECURSIVE IsSubSeq(_, _, _, _)
IsSubSeq(s, i, t, j) ==
  IF i > Len(s) THEN TRUE
  ELSE IF j > Len(t) THEN FALSE
  ELSE IF s[i] = t[j] THEN IsSubSeq(s, i + 1, t, j + 1)
  ELSE IsSubSeq(s, i, t, j + 1)

\* C2: unless the session is reset, every stuck arrow is still in the
\* collection after any frame or input event, stuck, at the same position and
\* with the same velocity, and that velocity is zero.
C2_StuckFrozen ==
  [][last'.ev # "reset_game"
       => /\ IsSubSeq(StuckView(arrows, 1), 1, StuckView(arrows', 1), 1)
          /\ \A i \in 1..Len(arrows') :
               arrows'[i].stuck => arrows'[i].vel = <<0, 0, 0>>]_vars

\* a frame of positive dt ran with an arrow already on a target
C2_Witness ==
  /\ last.ev = "frame"
  /\ last.dt > 0
  /\ last.score > 0
  /\ \E i \in 1..Len(arrows) : arrows[i].stuck

\* C3: update() never makes an arrow alive again, and leaves the position,
\* previous position and velocity of an arrow that is not alive as they were.
C3_AliveOneWay ==
  [][\A i \in 1..Len(arrows) :
       ~arrows[i].alive
         => /\ i <= Len(arrows')
            /\ ~arrows'[i].alive
            /\ arrows'[i].pos = arrows[i].pos
            /\ arrows'[i].prev_pos = arrows[i].prev_pos
            /\ arrows'[i].vel = arrows[i].vel]_vars

\* update() of positive dt ran on an arrow that was already not alive
C3_Witness ==
  /\ last.ev = "arrow_update"
  /\ last.dt > 0
  /\ last.dead > 0
  /\ \E i \in 1..Len(arrows) : ~arrows[i].alive

\* C4: there are never more than 400 particles: not after a frame, not
\* after the spawn loop of the next frame, and one spawn at the cap adds none.
C4_ParticleCap ==
  /\ Len(weather.particles) <= 400
  /\ \A u \in RandSet :
       /\ Len(spawn_loop(weather, preset(weather).spawnPerFrame, u).particles) <= 400
       /\ Len(weather.particles) = 400 => spawn_particle(weather, u) = weather

\* a frame started at the cap under a preset that spawns
C4_Witness ==
  /\ last.ev = "frame"
  /\ last.parts = 400
  /\ preset(weather).spawnPerFrame > 0
  /\ Len(weather.particles) = 400

SuccType == [clear |-> "wind", wind |-> "rain", rain |-> "snow", snow |-> "clear"]

\* C5: a cycle event moves clear to wind, wind to rain, rain to snow and
\* snow to clear, and four cycles in a row come back to the preset they
\* started from.
C5_CycleOrder ==
  /\ [](type(cycle_type(cycle_type(cycle_type(cycle_type(weather))))) = type(weather))
  /\ [][last'.ev = "cycle_weather" => type(weather') = SuccType[type(weather)]]_vars

\* a cycle event wrapped round from snow to clear
C5_Witness ==
  /\ last.ev = "cycle_weather"
  /\ type(weather) = "clear"
  /\ steps > 0

\* C6: while clear is the active preset there are no particles: none right
\* after the cycle event that made it active, none after any later frame.
C6_ClearHasNoParticles ==
  type(weather) = "clear" => weather.particles = <<>>

\* a cycle event made clear active and discarded particles
C6_Witness ==
  /\ last.ev = "cycle_weather"
  /\ last.parts > 0
  /\ type(weather) = "clear"

BandPoints(f) ==
  IF f <= 200 THEN 10
  ELSE IF f <= 400 THEN 8
  ELSE IF f <= 600 THEN 6
  ELSE IF f <= 800 THEN 4
  ELSE 2

\* C7: a ring fraction f in [0, 1] scores 10 for f <= 0.2, 8 for f <= 0.4,
\* 6 for f <= 0.6, 4 for f <= 0.8 and 2 for f <= 1.0, and no larger fraction
\* scores more.
C7_ScoreBands ==
  steps = 1
    => /\ points = BandPoints(frac)
       /\ \A f \in FracSet : f >= frac => score_for_radius_fraction(f) <= points

\* the fraction exactly on the first threshold was scored
C7_Witness == steps = 1 /\ frac = 200 /\ points = 10

\* the square of the distance, on target i's plane, between the centre of
\* target i and the point where arrow a's segment meets the plane
PlaneDistSq(g, a, i) ==
  LET c == g.target_centers[i]
      h == hit_point(a, c[3])
  IN (h[1] - c[1]) * (h[1] - c[1]) + (h[2] - c[2]) * (h[2] - c[2])

MeetsPlane(g, a, i) ==
  LET tz == g.target_centers[i][3]
  IN /\ a.prev_pos[3] # a.pos[3]
     /\ Min(a.prev_pos[3], a.pos[3]) <= tz
     /\ tz <= Max(a.prev_pos[3], a.pos[3])

OnFace(g, a, i) ==
  MeetsPlane(g, a, i) /\ PlaneDistSq(g, a, i) <= g.targets[i].radius * g.targets[i].radius

PassesWide(g, a, i) ==
  MeetsPlane(g, a, i) /\ PlaneDistSq(g, a, i) > g.targets[i].radius * g.targets[i].radius

\* the session of the next frame of raw dt, as collision resolution finds it
BeforeCollisions(raw) ==
  LET dt == Min(raw, dtClamp)
  IN update_arrows(update_targets(G, dt), dt)

\* C8: in every frame, collision resolution leaves as it found it every
\* arrow in flight whose segment meets a target's plane outside the radius
\* and meets no target's plane within the radius; when no arrow in flight
\* meets a plane within the radius, score and streak stay as they were.
C8_MissLeavesArrow ==
  \A raw \in DtRawSet :
    LET g3 == BeforeCollisions(raw)
        g4 == resolve_arrow_target_collisions(g3)
        InFlight(k) == g3.arrows[k].alive /\ ~g3.arrows[k].stuck
        NoFace(k) == \A i \in 1..Len(g3.targets) : ~OnFace(g3, g3.arrows[k], i)
    IN /\ \A k \in 1..Len(g3.arrows) :
            (/\ InFlight(k)
             /\ NoFace(k)
             /\ \E i \in 1..Len(g3.targets) : PassesWide(g3, g3.arrows[k], i))
              => g4.arrows[k] = g3.arrows[k]
       /\ (\A k \in 1..Len(g3.arrows) : InFlight(k) => NoFace(k))
            => g4.score = score /\ g4.streak = streak

\* a frame took an arrow through target 1's plane outside the radius
C8_Witness ==
  /\ last.ev = "frame"
  /\ score = last.score
  /\ \E k \in 1..Len(arrows) :
       /\ arrows[k].alive
       /\ ~arrows[k].stuck
       /\ PassesWide(G, arrows[k], 1)

JustReset ==
  /\ score = 0
  /\ shots_taken = 0
  /\ streak = 0
  /\ aim_yaw = 0
  /\ aim_pitch = 0
  /\ is_drawing = FALSE
  /\ draw_strength = 0
  /\ arrows = <<>>
  /\ Len(targets) = 2
  /\ targets[1] = [base_center |-> <<-500, 400, -4000>>, radius |-> 250,
                   depth |-> 20, amp_x |-> 400, amp_y |-> 150,
                   freq_x |-> 1200, freq_y |-> 2400, time |-> 0]
  /\ targets[2] = [base_center |-> <<600, 600, -6000>>, radius |-> 300,
                   depth |-> 20, amp_x |-> 800, amp_y |-> 300,
                   freq_x |-> 800, freq_y |-> 400, time |-> 0]
  /\ type(weather) = "clear"
  /\ weather.particles = <<>>

\* C9: a reset from any state leaves score, shots, streak, yaw, pitch and
\* draw-charge 0, no draw in progress, no arrows, the two targets at their
\* initial parameters and time 0, and the weather clear with no particles;
\* so does a second reset, whose result is therefore the same.
C9_ResetTotal ==
  [][last'.ev = "reset_game" => JustReset' /\ reset_game(reset_game(G)) = reset_game(G)]_vars

\* a reset ran in a session with a streak, an arrow and a score
C9_Witness ==
  /\ last.ev = "reset_game"
  /\ last.streak > 0
  /\ last.arrows > 0
  /\ last.score > 0
  /\ JustReset

\* C10: unless it is a reset, no frame and no input event lowers score or
\* shots_taken; score changes only in a frame and shots_taken only on the
\* release that fires.
C10_Monotonic ==
  [][last'.ev # "reset_game"
       => /\ score' >= score
          /\ shots_taken' >= shots_taken
          /\ (score' # score => last'.ev = "frame")
          /\ (shots_taken' # shots_taken => last'.ev = "draw_release")]_vars

\* a frame raised the score
C10_Witness ==
  /\ last.ev = "frame"
  /\ score > last.score
  /\ shots_taken > 0


\* C11: a release while a draw is in progress adds one arrow to the
\* collection and one to shots_taken, ends the draw, and leaves the draw
\* strength at 0.
C11_ReleaseFiresAndResets ==
  [][last'.ev = "draw_release" /\ is_drawing
       => /\ Len(arrows') = Len(arrows) + 1
          /\ shots_taken' = shots_taken + 1
          /\ ~is_drawing'
          /\ draw_strength' = 0]_vars


\* C12: the aim pitch is always within [-0.4, 0.4] rad, and Aim Up or Aim
\* Down pressed when the step would reach or pass a limit leaves the pitch
\* exactly at that limit; the other aim events leave the pitch alone.
C12_PitchClamped ==
  /\ [](aim_pitch >= -400 /\ aim_pitch <= 400)
  /\ [][/\ last'.ev = "aim_up" /\ aim_pitch + aim_sensitivity >= 400
             => aim_pitch' = 400
        /\ last'.ev = "aim_down" /\ aim_pitch - aim_sensitivity <= -400
             => aim_pitch' = -400
        /\ last'.ev \in {"aim_left", "aim_right"} => aim_pitch' = aim_pitch]_vars

\* Aim Up was pressed with the pitch already at the upper limit
C12_Witness ==
  /\ last.ev = "aim_up"
  /\ last.pitch = 400
  /\ aim_pitch = 400


\* the fields of the session
session == <<score, shots_taken, streak, aim_yaw, aim_pitch, is_drawing,
             draw_strength, arrows, weather, targets, target_centers>>

\* C13: a press while the shots are spent or while a draw is already in
\* progress, and a release while no draw is in progress, change no field of
\* the session: no draw starts or restarts, the draw strength is not reset,
\* no arrow is fired.
C13_UnmetIsNoOp ==
  [][/\ last'.ev = "draw_press" /\ (is_drawing \/ shots_taken >= max_shots)
          => UNCHANGED session
     /\ last'.ev = "draw_release" /\ ~is_drawing
          => UNCHANGED session]_vars

\* the press came again during a draw that had charged
C13_Witness ==
  /\ last.ev = "draw_press"
  /\ last.drawing
  /\ last.charge > 0
  /\ is_drawing
  /\ draw_strength = last.charge


\* C14: in scenario A the arrow registers a hit on the target with 10
\* points after some number of frames.  The arrow is the only one and an
\* arrow scores only while it is in the collection, so the arrow has not
\* left the collection before the score is 10.
C14_ScenarioAHits == arrows = <<>> => score = 10

\* C14, amended: in scenario A the arrow registers no hit.  The score stays
\* 0, the arrow never sticks and never gets as far as the plane z = -40, and
\* once it is below y = -2 it is out of the collection.
C14_ScenarioAMisses ==
  /\ score = 0
  /\ streak = 0
  /\ \A i \in 1..Len(arrows) :
       /\ ~arrows[i].stuck
       /\ arrows[i].alive
       /\ arrows[i].pos[3] > -4000
       /\ arrows[i].pos[2] >= -200

\* the frame in which the arrow of scenario A went below the ground
C14_Witness ==
  /\ last.ev = "frame"
  /\ last.arrows = 1
  /\ last.shots = 1
  /\ last.charge = 0
  /\ last.index = 0
  /\ Len(targets) = 1
  /\ arrows = <<>>
  /\ score = 0


\* the centres of the targets once dt has been added to their time
CentersAfter(dt) ==
  [i \in 1..Len(targets) |-> get_center([targets[i] EXCEPT !.time = @ + dt])]

\* collision resolution works on the centres computed by the frame's target
\* update, and its outcome is the outcome of the frame
CollisionsOnUpdatedCenters(g3, dt) ==
  /\ Len(g3.target_centers) = Len(targets)
  /\ \A i \in 1..Len(targets) : g3.target_centers[i] = CentersAfter(dt)[i]
  /\ target_centers' = g3.target_centers
  /\ \E g4 \in {resolve_arrow_target_collisions(g3)} :
       arrows' = g4.arrows /\ score' = g4.score

Stuck(as) == Len(StuckView(as, 1))

\* C16: a frame in which one arrow hits makes the streak streak + 1 when the
\* points awarded are 8 or 10 and 0 when they are 2, 4 or 6; a frame in
\* which no arrow hits, and every input event but reset, leaves the streak
\* as it was.
C16_Streak ==
  [][/\ last'.ev = "frame" /\ Stuck(arrows') = Stuck(arrows)
          => streak' = streak
     /\ last'.ev = "frame" /\ Stuck(arrows') = Stuck(arrows) + 1
          => /\ score' - score \in {2, 4, 6, 8, 10}
             /\ score' - score >= 8 => streak' = streak + 1
             /\ score' - score < 8 => streak' = 0
     /\ last'.ev \notin {"frame", "reset_game"}
          => streak' = streak]_vars

\* a hit for 4 points ended a streak of 1
C16_Witness ==
  /\ last.ev = "frame"
  /\ last.streak = 1
  /\ score = last.score + 4
  /\ streak = 0
  /\ Stuck(arrows) = 2


\* the points for the place where arrow a's segment meets target i's plane
FacePoints(g, a, i) ==
  score_for_radius_fraction((Sqrt(PlaneDistSq(g, a, i)) * 1000) \div g.targets[i].radius)

\* arrow a has become b, stuck on target i, and the score has grown by the
\* points of that target's ring and by nothing more
TakenBy(a, b, i) ==
  /\ b.stuck
  /\ b.pos[3] = target_centers[i][3] + 20
  /\ score' = score + FacePoints(G, a, i)

\* C17: collision resolution scores an arrow in flight on at most one
\* target.  The targets are tried in array order: when the segment crosses
\* the face of target 1 the hit is target 1's, whether or not the segment
\* crosses the face of target 2 as well, and target 2 adds nothing; a
\* segment that crosses only the face of target 2 is target 2's hit; a
\* segment that crosses no face changes nothing.
C17_FirstTargetWins ==
  [][last'.ev = "resolve" /\ Len(arrows) = 1 /\ Len(arrows') = 1
       => LET a == arrows[1]
              b == arrows'[1]
          IN /\ score' - score \in {0, 2, 4, 6, 8, 10}
             /\ OnFace(G, a, 1) => TakenBy(a, b, 1)
             /\ ~OnFace(G, a, 1) /\ OnFace(G, a, 2) => TakenBy(a, b, 2)
             /\ ~OnFace(G, a, 1) /\ ~OnFace(G, a, 2)
                  => b = a /\ score' = score]_vars

\* a segment that crossed both faces: the arrow is on target 1
C17_Witness ==
  /\ last.ev = "resolve"
  /\ Len(arrows) = 1
  /\ arrows[1].stuck
  /\ arrows[1].pos[3] = target_centers[1][3] + 20
  /\ LET whole == [arrows[1] EXCEPT !.pos = <<650, 600, -6100>>]
     IN OnFace(G, whole, 1) /\ OnFace(G, whole, 2)


\* C18: the draw strength is always within [0, max_draw_strength]; a frame
\* run while a draw is in progress adds drawChargeRate x dt to it, up to
\* max_draw_strength, and a frame run while no draw is in progress leaves it
\* as it was.
C18_ChargeBounded ==
  /\ [](draw_strength >= 0 /\ draw_strength <= max_draw_strength)
  /\ [][last'.ev = "frame"
          => LET dt == Min(last'.dt, dtClamp)
                 grown == draw_strength + (drawChargeRate * dt) \div 60
             IN /\ is_drawing /\ grown <= max_draw_strength
                     => draw_strength' = grown
                /\ is_drawing /\ grown > max_draw_strength
                     => draw_strength' = max_draw_strength
                /\ ~is_drawing => draw_strength' = draw_strength]_vars

\* a frame of positive dt ran with the draw already full
C18_Witness ==
  /\ last.ev = "frame"
  /\ last.dt > 0
  /\ last.drawing
  /\ last.charge = max_draw_strength
  /\ draw_strength = max_draw_strength


\* arrow a is in flight and a frame of dt takes it below y = -2
Falls(a, dt) ==
  /\ a.alive
  /\ ~a.stuck
  /\ a.pos[2] + ((a.vel[2] + (gravity * dt) \div 60) * dt) \div 60 < -200

\* the arrows of the collection that the frame of dt takes below y = -2
Fallen(dt) == {i \in 1..Len(arrows) : Falls(arrows[i], dt)}

\* C19: an arrow that a frame takes below y = -2 is out of the collection
\* at the end of that frame and has added nothing to score or streak, even
\* when the segment of its fall crosses a target's face: the collection
\* shrinks by the arrows that fell, a frame in which every arrow in flight
\* fell leaves score and streak as they were, and at the end of every frame
\* every arrow of the collection is alive.
C19_FallenNeverScores ==
  [][last'.ev = "frame"
       => LET dt == Min(last'.dt, dtClamp)
          IN /\ Len(arrows') = Len(arrows) - Cardinality(Fallen(dt))
             /\ (\A i \in 1..Len(arrows) :
                   arrows[i].alive /\ ~arrows[i].stuck => i \in Fallen(dt))
                  => score' = score /\ streak' = streak
             /\ \A j \in 1..Len(arrows') : arrows'[j].alive]_vars

\* the frame of 1/30 s took the arrow given by hand through target 1's face
\* and below y = -2: it is gone and nothing was scored
C19_Witness ==
  /\ last.ev = "frame"
  /\ last.dt >= dtClamp
  /\ last.shots = 0
  /\ last.arrows = 1
  /\ steps = 1
  /\ OnFace(G, integrate(PlungeArrow, dtClamp, gravity, <<0, 0, 0>>), 1)
  /\ ~integrate(PlungeArrow, dtClamp, gravity, <<0, 0, 0>>).alive
  /\ arrows = <<>>
  /\ score = 0


\* the wind vector of the session
Wind == get_weather_wind_vector(G)

\* C20: a frame leaves the active weather preset, and so the wind vector, as
\* they were; only Cycle Weather and Reset change the wind vector; the
\* vertical component of the wind vector is always 0.
C20_WindOnlyOnCycle ==
  /\ [](Wind[2] = 0)
  /\ [][/\ last'.ev = "frame"
             => weather'.current_index = weather.current_index /\ Wind' = Wind
        /\ last'.ev \notin {"cycle_weather", "reset_game"}
             => Wind' = Wind]_vars

\* a frame of positive dt ran in rain, under its wind
C20_Witness ==
  /\ last.ev = "frame"
  /\ last.dt > 0
  /\ last.index = 2
  /\ last.parts > 0
  /\ weather.current_index = 2
  /\ Wind # <<0, 0, 0>>


\* C21: each arrow adds to the score at most once: the score is at least 2
\* and at most 10 for every stuck arrow of the collection, and the
\* collection never holds more arrows than shots were taken.
C21_OneScorePerArrow ==
  /\ score >= 2 * Stuck(arrows)
  /\ score <= 10 * Stuck(arrows)
  /\ Len(arrows) <= shots_taken

\* two arrows on a target, 8 and 4 points, and frames run since
C21_Witness ==
  /\ Stuck(arrows) = 2
  /\ score = 12
  /\ shots_taken = 2
  /\ last.ev = "frame"
  /\ last.score = 12


\* some arrow of the collection is alive and not stuck
InFlight == \E i \in 1..Len(arrows) : arrows[i].alive /\ ~arrows[i].stuck

\* C22: no arrow flies forever: with frames of positive dt coming, whenever
\* arrows are in flight there comes a frame after which none is: each has
\* stuck on a target or has gone below the ground and out of the
\* collection.
C22_NoEndlessFlight == InFlight ~> ~InFlight

\* the full-draw arrow shot at the highest pitch has come down, after more
\* than 100 frames, and is out of the collection
C22_Witness ==
  /\ last.ev = "frame"
  /\ last.pitch = 400
  /\ last.charge = max_draw_strength
  /\ last.arrows = 1
  /\ steps > 100
  /\ arrows = <<>>


\* C23: whenever a frame draws, animated or paused, and so also on the first
\* frame after a reset, target_centers has one entry per target, in the
\* order of the targets: entry i is the centre of target i.
C23_CentersPerTarget ==
  last.ev \in {"frame", "paused_frame"}
    => /\ Len(target_centers) = Len(targets)
       /\ \A i \in 1..Len(targets) : target_centers[i] = get_center(targets[i])

====
